---------------------------- MODULE Spec2Model ----------------------------
(***************************************************************************)
(* A model of src/stock_bot.py: the Telegram bot that relays Indonesian    *)
(* stock quotes through a five-minute quote cache and forwards questions   *)
(* to an LLM.                                                              *)
(*                                                                         *)
(* Strings the program manipulates (symbols, message texts) are sequences  *)
(* of one-character strings.  Wall-clock time is counted in minutes.       *)
(* A handler is a coroutine: it runs without interruption from one await   *)
(* to the next, so one action of the model is one such segment.  The       *)
(* quote provider and the LLM client are called synchronously (no await),  *)
(* so get_stock_data and ai_chat each run inside a single segment.         *)
(***************************************************************************)
EXTENDS Integers, Sequences, FiniteSets, TLC

VARIABLES
    now,            \* datetime.now(), in minutes
    stock_cache,    \* StockBot.stock_cache: code -> [data, ts]
    AI_API_KEY,     \* whether an AI credential was found at import
    gemini_model,   \* whether the module-level model handle is not None
    task,           \* the handler coroutines in flight, by slot
    events,         \* number of updates dispatched so far
    order,          \* the runs in flight, in the order they were dispatched
    lastStore,      \* history: per code, the pair written by the fetch
                    \* that completed last
    step            \* history: what the last step asked of the providers

vars == <<now, stock_cache, AI_API_KEY, gemini_model, task, events, order,
          lastStore, step>>

-----------------------------------------------------------------------------
(* Bounds of the model *)

MaxTime == 6        \* the clock stops here
MaxEvents == 2      \* updates dispatched in one behaviour
MaxQuote == 3       \* closing prices of the quote derivation's inputs
MaxSeries == 2      \* length of those inputs
MaxLen == 4         \* length of a requested symbol text

(* Program constants *)

cache_expiry == 5
PopularLimit == 6
QuestionMinLen == 10
CodeMaxLen == 6

Tasks == {1, 2}

-----------------------------------------------------------------------------
(* Strings *)

LowerAlpha == <<"a","b","c","d","e","f","g","h","i","j","k","l","m",
                "n","o","p","q","r","s","t","u","v","w","x","y","z">>
UpperAlpha == <<"A","B","C","D","E","F","G","H","I","J","K","L","M",
                "N","O","P","Q","R","S","T","U","V","W","X","Y","Z">>

UpperChar(c) ==
    IF \E i \in 1..26 : LowerAlpha[i] = c
    THEN UpperAlpha[CHOOSE i \in 1..26 : LowerAlpha[i] = c]
    ELSE c

LowerChar(c) ==
    IF \E i \in 1..26 : UpperAlpha[i] = c
    THEN LowerAlpha[CHOOSE i \in 1..26 : UpperAlpha[i] = c]
    ELSE c

IsAlphaChar(c) == \E i \in 1..26 : LowerAlpha[i] = c \/ UpperAlpha[i] = c

\* str.upper()
Upper(s) == [i \in 1..Len(s) |-> UpperChar(s[i])]

\* str.lower()
Lower(s) == [i \in 1..Len(s) |-> LowerChar(s[i])]

\* str.isalpha(): non-empty and every character alphabetic
IsAlpha(s) == Len(s) > 0 /\ \A i \in 1..Len(s) : IsAlphaChar(s[i])

\* s.startswith(p)
StartsWith(s, p) == Len(p) <= Len(s) /\ SubSeq(s, 1, Len(p)) = p

\* s.endswith(p)
EndsWith(s, p) ==
    Len(p) <= Len(s) /\ SubSeq(s, Len(s) - Len(p) + 1, Len(s)) = p

\* p in s
Contains(s, p) ==
    \E i \in 1..(Len(s) - Len(p) + 1) : SubSeq(s, i, i + Len(p) - 1) = p

\* s.replace(p, ''): every non-overlapping occurrence of p, scanning from
\* the left, is removed; the result is not scanned again
RECURSIVE Remove(_, _)
Remove(s, p) ==
    IF s = <<>> THEN <<>>
    ELSE IF StartsWith(s, p) THEN Remove(SubSeq(s, Len(p) + 1, Len(s)), p)
    ELSE <<Head(s)>> \o Remove(Tail(s), p)

\* s.strip(), for the blank character " "
RECURSIVE Strip(_)
Strip(s) ==
    IF s = <<>> THEN s
    ELSE IF Head(s) = " " THEN Strip(Tail(s))
    ELSE IF s[Len(s)] = " " THEN Strip(SubSeq(s, 1, Len(s) - 1))
    ELSE s

JK == <<".", "J", "K">>

-----------------------------------------------------------------------------
(* Static configuration *)

BBCA == <<"B","B","C","A",".","J","K">>
BBRI == <<"B","B","R","I",".","J","K">>

\* The symbol -> name table, in insertion order (its first two entries).
PopularOrder == <<BBCA, BBRI>>

POPULAR_STOCKS ==
    (BBCA :> <<"Bank Central Asia">>) @@ (BBRI :> <<"Bank Rakyat Indonesia">>)


-----------------------------------------------------------------------------
(* The quote provider: what ticker.history(period="5d") can do *)

Volumes == {3}

\* the series of at most len rows with closing prices from prices
Hists(prices, len) ==
    UNION {[1..n -> [Close : prices, Volume : Volumes]] : n \in 0..len}

\* "raise": the provider raises; "malformed": a non-empty frame the
\* derivation raises on; "frame": a price series, possibly empty
ResponsesOver(hists) ==
    {[kind |-> "raise", rows |-> <<>>], [kind |-> "malformed", rows |-> <<>>]}
        \cup {[kind |-> "frame", rows |-> h] : h \in hists}

\* the answers the bot's behaviours are explored with
Responses == ResponsesOver(Hists({1, 2}, 1))

\* the answers the quote derivation is explored with
WideResponses == ResponsesOver(Hists(0..MaxQuote, MaxSeries))

\* the minutes a provider call may take
Delays == {0, 1}

None == [none |-> TRUE]

-----------------------------------------------------------------------------
(* StockBot.get_stock_data *)

\* (a variant: the comparison of line 93 turned around)
FreshInverted(cache, code, t) ==
    code \in DOMAIN cache /\ t - cache[code].ts > cache_expiry

\* (a variant: an entry aged exactly cache_expiry still counts)
FreshInclusive(cache, code, t) ==
    code \in DOMAIN cache /\ t - cache[code].ts <= cache_expiry

\* lines 91-93: the entry for code may be reused at time t
Fresh(cache, code, t) ==
    code \in DOMAIN cache /\ t - cache[code].ts < cache_expiry

\* (a variant: a series of one sample has no prior close, taken as 0)
PrevCloseMissing(rows) ==
    IF Len(rows) > 1 THEN rows[Len(rows) - 1].Close ELSE 0

\* line 104
PrevClose(rows) ==
    IF Len(rows) > 1 THEN rows[Len(rows) - 1].Close ELSE rows[Len(rows)].Close

\* Numbers that need not be whole are fractions in lowest terms.
RECURSIVE Gcd(_, _)
Gcd(a, b) == IF b = 0 THEN a ELSE Gcd(b, a % b)

Abs(a) == IF a < 0 THEN -a ELSE a

Ratio(a, b) ==
    LET g == Gcd(Abs(a), Abs(b))
        sign == IF b < 0 THEN -1 ELSE 1
    IN  [num |-> sign * (a \div g), den |-> Abs(b) \div g]

Whole(a) == [num |-> a, den |-> 1]

\* (a variant: line 106 without its guard)
ChangePctUnguarded(change, prev_close) ==
    IF prev_close # 0
    THEN [raised |-> FALSE, value |-> Ratio(change * 100, prev_close)]
    ELSE [raised |-> TRUE, value |-> Whole(0)]

\* line 106: raised tells a ZeroDivisionError
ChangePct(change, prev_close) ==
    IF prev_close # 0
    THEN [raised |-> FALSE, value |-> Ratio(change * 100, prev_close)]
    ELSE [raised |-> FALSE, value |-> Whole(0)]

\* line 110
DisplayName(code) ==
    IF code \in DOMAIN POPULAR_STOCKS
    THEN POPULAR_STOCKS[code]
    ELSE Remove(code, JK)

\* lines 103-115, on a non-empty series
BuildData(code, rows) ==
    LET current_price == rows[Len(rows)].Close
        prev_close == PrevClose(rows)
        change == current_price - prev_close
        pct == ChangePct(change, prev_close)
    IN  [raised |-> pct.raised,
         data |-> [code |-> code,
                   name |-> DisplayName(code),
                   current_price |-> current_price,
                   change |-> change,
                   change_pct |-> pct.value,
                   volume |-> rows[Len(rows)].Volume]]

\* (a variant: setdefault, which keeps an entry that is there)
CacheStoreIfAbsent(cache, code, data, t) ==
    [c \in DOMAIN cache \cup {code} |->
        IF c \in DOMAIN cache THEN cache[c] ELSE [data |-> data, ts |-> t]]

\* line 118
CacheStore(cache, code, data, t) ==
    [c \in DOMAIN cache \cup {code} |->
        IF c = code THEN [data |-> data, ts |-> t] ELSE cache[c]]

\* (a variant: a failed fetch drops the entry it could not refresh)
FetchFailedEvicts(cache, code) ==
    [cache |-> [c \in DOMAIN cache \ {code} |-> cache[c]], ret |-> None]

\* lines 100-101 and 121-123: what a failed fetch leaves and returns
FetchFailed(cache, code) == [cache |-> cache, ret |-> None]

\* The whole of get_stock_data, called at time t0 with the provider
\* answering resp after d minutes.  calls counts the provider calls made,
\* stored tells whether line 118 ran.
GetStockData(cache, t0, code, resp, d) ==
    IF Fresh(cache, code, t0)
    THEN [cache |-> cache, now |-> t0, ret |-> cache[code].data,
          calls |-> 0, stored |-> FALSE]
    ELSE LET failed == FetchFailed(cache, code)
             fail == [cache |-> failed.cache, now |-> t0 + d,
                      ret |-> failed.ret, calls |-> 1, stored |-> FALSE]
         IN  IF resp.kind # "frame" \/ resp.rows = <<>>
             THEN fail
             ELSE LET built == BuildData(code, resp.rows)
                  IN  IF built.raised
                      THEN fail
                      ELSE [cache |-> CacheStore(cache, code, built.data, t0 + d),
                            now |-> t0 + d, ret |-> built.data,
                            calls |-> 1, stored |-> TRUE]

-----------------------------------------------------------------------------
(* StockBot.ai_chat *)

\* What gemini_model.generate_content can do: answer with text, answer
\* with no text, or raise (quota, safety policy, anything else)
LlmOutcomes == {"text", "empty", "quota", "safety", "error"}

AiReply(out) ==
    CASE out = "text" -> "AI_ANSWER"
      [] out = "empty" -> "AI_NO_ANSWER"
      [] out = "quota" -> "AI_QUOTA"
      [] out = "safety" -> "AI_SAFETY"
      [] OTHER -> "AI_TRY_LATER"

\* (a variant: a second attempt after a provider error)
AskProviderRetries(out) ==
    [reply |-> AiReply(out),
     llm |-> IF out \in {"quota", "safety", "error"} THEN 2 ELSE 1,
     raised |-> FALSE]

\* lines 142-181: the provider call and what is made of its outcome.
\* llm counts the provider calls, raised tells an exception leaving ai_chat.
AskProvider(out) ==
    [reply |-> AiReply(out), llm |-> 1, raised |-> FALSE]

\* (a variant: ai_chat without the checks of lines 129-140)
AiChatUnguarded(key, model, out) == AskProvider(out)

\* lines 127-181
AiChat(key, model, out) ==
    IF ~key THEN [reply |-> "AI_NO_KEY", llm |-> 0, raised |-> FALSE]
    ELSE IF ~model THEN [reply |-> "AI_NO_MODEL", llm |-> 0, raised |-> FALSE]
    ELSE AskProvider(out)

-----------------------------------------------------------------------------
(* StockBot.search_stock, line 270 *)

\* (a variant: the suffix appended whatever the text ends with)
NormalizeAlways(stock_code) == stock_code \o JK

\* (a variant: the text looked up as it was typed)
NormalizeSkipped(stock_code) == stock_code

Normalize(stock_code) ==
    IF ~EndsWith(stock_code, JK) THEN stock_code \o JK ELSE stock_code

\* line 277: the direction indicator of the quote reply
Emoji(data) == IF data.change_pct.num >= 0 THEN "green" ELSE "red"

-----------------------------------------------------------------------------
(* History: the pair each code was last given, and by which handler run *)

Note(last, code, r, who) ==
    IF r.stored
    THEN [c \in DOMAIN last \cup {code} |->
            IF c = code THEN [data |-> r.ret, ts |-> r.now]
            ELSE last[c]]
    ELSE last

-----------------------------------------------------------------------------
(* StockBot.show_popular_stocks, lines 344-355: the loop over the table   *)
(* from entry i on, with count successes so far; resps[i] and ds[i] are   *)
(* the provider's answer and delay should entry i be fetched.  last is    *)
(* the history, kept along.                                               *)

RECURSIVE PopularLoop(_, _, _, _, _, _, _, _, _)
PopularLoop(cache, last, who, t, i, count, calls, resps, ds) ==
    IF i > Len(PopularOrder) \/ count >= PopularLimit
    THEN [cache |-> cache, last |-> last, now |-> t,
          count |-> count, calls |-> calls]
    ELSE LET r == GetStockData(cache, t, PopularOrder[i], resps[i], ds[i])
         IN  PopularLoop(r.cache, Note(last, PopularOrder[i], r, who), who,
                         r.now, i + 1,
                         IF r.ret # None THEN count + 1 ELSE count,
                         calls + r.calls, resps, ds)

-----------------------------------------------------------------------------
(* Inputs: the updates the chat platform delivers *)

\* the characters requested symbol texts are made of
SymbolChars == {"B", ".", "J", "K", "k"}

\* every text of 1 to MaxLen of them
SymbolTexts == UNION {[1..n -> SymbolChars] : n \in 1..MaxLen}

\* context.args of /stock, for every such text
WideArgs == {<<w>> : w \in SymbolTexts}

\* context.args of /stock
StockArgs ==
    { <<>>, << <<"B","B","C","A">> >>, << <<"b","b","r","i",".","j","k">> >> }

\* context.args of /ask
AskArgs == {<<>>, <<<<"s","a","h","a","m">>>>}

\* update.message.text of a plain message
Texts ==
    { <<" ","b","b","c","a">>,
      <<"a","p","a"," ","i","t","u"," ","s","a","h","a","m","?">>,
      <<"b","e","l","i"," ","b","b","c","a">> }

\* query.data of a button click
ButtonData == {"popular", "ihsg", "ai_help", "help", "back", "stale"}

\* line 488
question_words ==
    { <<"a","p","a">>, <<"b","a","g","a","i","m","a","n","a">>,
      <<"m","e","n","g","a","p","a">>, <<"k","e","n","a","p","a">>,
      <<"k","a","p","a","n">>, <<"d","i","m","a","n","a">>,
      <<"s","i","a","p","a">>, <<"?">> }

\* line 489
IsQuestion(text) ==
    (\E w \in question_words : Contains(Lower(text), w)) \/ EndsWith(text, <<"?">>)

-----------------------------------------------------------------------------
(* Handler runs *)

IdleTask ==
    [handler |-> "none", pc |-> "idle", data |-> "", stock_code |-> <<>>,
     code |-> <<>>,
     ret |-> None, fetched |-> FALSE, reply |-> "NONE", emoji |-> "none"]

\* The record of a step: kind tells what ran ("lookup": get_stock_data for
\* search_stock, "popular": the loop of show_popular_stocks, "ihsg", "ai":
\* ai_chat), by the slot, quote and llm the calls made to the quote and
\* the LLM provider, was and age the timestamp and the age of the cache
\* entry when get_stock_data was entered (-1: no entry), answer and rows
\* what the provider answered.
NoCalls ==
    [kind |-> "none", by |-> 0, quote |-> 0, llm |-> 0, was |-> -1, age |-> -1,
     answer |-> "none", rows |-> <<>>]

InFlight(t) == task[t].pc \notin {"idle", "escaped"}

Free(t) == ~InFlight(t) /\ events < MaxEvents

\* a run of handler h, suspended at pc with reply pending
Begin(h, pc, reply) ==
    [IdleTask EXCEPT !.handler = h, !.pc = pc, !.reply = reply]

\* a slot whose run returned is idle again; one whose run an exception
\* left, for the dispatch loop to catch, shows it until it is taken again
Returned == IdleTask

Escaped == [IdleTask EXCEPT !.pc = "escaped"]

Without(seq, t) == SelectSeq(seq, LAMBDA u : u # t)

\* the first segment of search_stock, lines 270-273
SearchStockBegin(h, stock_code) ==
    [Begin(h, "loading", "LOADING") EXCEPT
        !.stock_code = stock_code, !.code = Normalize(stock_code)]

Init ==
    /\ now = 0
    /\ stock_cache = <<>>
    /\ AI_API_KEY \in BOOLEAN
    /\ \E available, initialised \in BOOLEAN :
          gemini_model = (AI_API_KEY /\ available /\ initialised)
    /\ task = [t \in Tasks |-> IdleTask]
    /\ events = 0
    /\ order = <<>>
    /\ lastStore = <<>>
    /\ step = NoCalls

\* the clock advances while every handler is suspended
Tick ==
    /\ now < MaxTime
    /\ now' = now + 1
    /\ step' = NoCalls
    /\ UNCHANGED <<stock_cache, AI_API_KEY, gemini_model, task, events, order,
                   lastStore>>

\* stock_command, lines 248-266, to its first await
StockCommandFrom(t, argsets) ==
    /\ Free(t)
    /\ \E args \in argsets :
          task' = [task EXCEPT ![t] =
                     IF args = <<>>
                     THEN Begin("stock", "sending", "STOCK_USAGE")
                     ELSE SearchStockBegin("stock", Upper(args[1]))]
    /\ events' = events + 1
    /\ order' = Append(order, t)
    /\ step' = NoCalls
    /\ UNCHANGED <<now, stock_cache, AI_API_KEY, gemini_model, lastStore>>

StockCommand(t) == StockCommandFrom(t, StockArgs)

\* search_stock, lines 273-292: the loading message was sent (or the send
\* raised), then get_stock_data runs and the reply is edited in
SearchStockFetchWith(t, resps, delays) ==
    /\ task[t].pc = "loading"
    /\ \/ /\ task' = [task EXCEPT ![t] = Escaped]
          /\ order' = Without(order, t)
          /\ step' = NoCalls
          /\ UNCHANGED <<now, stock_cache, lastStore>>
       \/ \E resp \in resps, d \in delays :
             LET r == GetStockData(stock_cache, now, task[t].code, resp, d)
             IN  /\ r.now <= MaxTime
                 /\ now' = r.now
                 /\ stock_cache' = r.cache
                 /\ lastStore' = Note(lastStore, task[t].code, r, t)
                 /\ task' = [task EXCEPT
                       ![t].pc = "sending",
                       ![t].ret = r.ret,
                       ![t].fetched = r.calls > 0,
                       ![t].reply = IF r.ret # None THEN "QUOTE" ELSE "NOT_FOUND",
                       ![t].emoji = IF r.ret # None THEN Emoji(r.ret) ELSE "none"]
                 /\ step' = [kind |-> "lookup", by |-> t,
                              quote |-> r.calls, llm |-> 0,
                              was |-> IF task[t].code \in DOMAIN stock_cache
                                      THEN stock_cache[task[t].code].ts
                                      ELSE -1,
                              age |-> IF task[t].code \in DOMAIN stock_cache
                                      THEN now - stock_cache[task[t].code].ts
                                      ELSE -1,
                              answer |-> IF r.calls > 0 THEN resp.kind ELSE "none",
                              rows |-> IF r.calls > 0 THEN resp.rows ELSE <<>>]
                 /\ order' = order
    /\ UNCHANGED <<AI_API_KEY, gemini_model, events>>

SearchStockFetch(t) == SearchStockFetchWith(t, Responses, Delays)

\* the last message of a handler was sent, or the send raised
FinishSend(t) ==
    /\ task[t].pc = "sending"
    /\ \/ task' = [task EXCEPT ![t] = Returned]
       \/ task' = [task EXCEPT ![t] = Escaped]
    /\ order' = Without(order, t)
    /\ step' = NoCalls
    /\ UNCHANGED <<now, stock_cache, AI_API_KEY, gemini_model, events, lastStore>>

\* handle_text, lines 483-512, to its first await
HandleText(t) ==
    /\ Free(t)
    /\ \E raw \in Texts :
          LET text == Strip(raw)
          IN  task' = [task EXCEPT ![t] =
                 IF IsQuestion(text) /\ Len(text) > QuestionMinLen
                 THEN Begin("text", "typing", "NONE")
                 ELSE IF Len(text) <= CodeMaxLen /\ IsAlpha(Upper(text))
                 THEN SearchStockBegin("text", Upper(text))
                 ELSE Begin("text", "sending", "SUGGEST")]
    /\ events' = events + 1
    /\ order' = Append(order, t)
    /\ step' = NoCalls
    /\ UNCHANGED <<now, stock_cache, AI_API_KEY, gemini_model, lastStore>>

\* ask_command, lines 215-240, to its first await
AskCommand(t) ==
    /\ Free(t)
    /\ \E args \in AskArgs :
          task' = [task EXCEPT ![t] =
                     IF args = <<>>
                     THEN Begin("ask", "sending", "ASK_USAGE")
                     ELSE Begin("ask", "typing", "NONE")]
    /\ events' = events + 1
    /\ order' = Append(order, t)
    /\ step' = NoCalls
    /\ UNCHANGED <<now, stock_cache, AI_API_KEY, gemini_model, lastStore>>

\* lines 240-246 and 493-495: the typing action was sent (or the send
\* raised), then ai_chat runs and its answer is sent
AiAnswer(t) ==
    /\ task[t].pc = "typing"
    /\ \/ /\ task' = [task EXCEPT ![t] = Escaped]
          /\ order' = Without(order, t)
          /\ step' = NoCalls
       \/ \E out \in LlmOutcomes :
             LET a == AiChat(AI_API_KEY, gemini_model, out)
             IN  IF a.raised
                 THEN /\ task' = [task EXCEPT ![t] = Escaped]
                      /\ order' = Without(order, t)
                      /\ step' = [NoCalls EXCEPT
                            !.kind = "ai", !.by = t, !.llm = a.llm,
                            !.answer = IF a.llm > 0 THEN out ELSE "none"]
                 ELSE /\ task' = [task EXCEPT ![t].pc = "sending",
                                              ![t].reply = a.reply]
                      /\ order' = order
                      /\ step' = [NoCalls EXCEPT
                            !.kind = "ai", !.by = t, !.llm = a.llm,
                            !.answer = IF a.llm > 0 THEN out ELSE "none"]
    /\ UNCHANGED <<now, stock_cache, AI_API_KEY, gemini_model, events, lastStore>>

\* start, lines 185-213, to its await
Start(t) ==
    /\ Free(t)
    /\ task' = [task EXCEPT ![t] = Begin("start", "sending", "WELCOME")]
    /\ events' = events + 1
    /\ order' = Append(order, t)
    /\ step' = NoCalls
    /\ UNCHANGED <<now, stock_cache, AI_API_KEY, gemini_model, lastStore>>

\* button_handler, lines 294-297, to its first await (query.answer())
ButtonHandler(t) ==
    /\ Free(t)
    /\ \E data \in ButtonData :
          task' = [task EXCEPT ![t] =
                     [Begin("button", "answer", "NONE") EXCEPT !.data = data]]
    /\ events' = events + 1
    /\ order' = Append(order, t)
    /\ step' = NoCalls
    /\ UNCHANGED <<now, stock_cache, AI_API_KEY, gemini_model, lastStore>>

\* lines 409-419: the help text show_ai_help picks
AiHelpText ==
    IF ~AI_API_KEY THEN "AI_HELP_NO_KEY"
    ELSE IF ~gemini_model THEN "AI_HELP_NO_MODEL"
    ELSE "AI_HELP"

\* button_handler, lines 297-309: query.answer() returned or raised (line
\* 297 stands before the try), then the menu function runs to its first
\* await
ButtonDispatch(t) ==
    /\ task[t].pc = "answer"
    /\ LET data == task[t].data
       IN  \/ /\ task' = [task EXCEPT ![t] = Escaped]
              /\ order' = Without(order, t)
           \/ /\ data = "popular"
              /\ task' = [task EXCEPT ![t].pc = "pop_loading",
                                      ![t].reply = "POPULAR_LOADING"]
              /\ order' = order
           \/ /\ data = "ihsg"
              /\ task' = [task EXCEPT ![t].pc = "ihsg_loading",
                                      ![t].reply = "IHSG_LOADING"]
              /\ order' = order
           \/ /\ data \in {"ai_help", "help", "back"}
              /\ task' = [task EXCEPT
                    ![t].pc = "try_sending",
                    ![t].reply = CASE data = "ai_help" -> AiHelpText
                                   [] data = "help" -> "HELP"
                                   [] OTHER -> "MAIN_MENU"]
              /\ order' = order
           \/ /\ data \notin {"popular", "ihsg", "ai_help", "help", "back"}
              /\ task' = [task EXCEPT ![t] = Returned]
              /\ order' = Without(order, t)
    /\ step' = NoCalls
    /\ UNCHANGED <<now, stock_cache, AI_API_KEY, gemini_model, events, lastStore>>

\* show_popular_stocks, lines 340-365: the loading text was edited in (or
\* the edit raised, which line 310 catches), then the loop runs and the
\* list is edited in
PopularFetch(t) ==
    /\ task[t].pc = "pop_loading"
    /\ \/ /\ task' = [task EXCEPT ![t].pc = "err_edit",
                                  ![t].reply = "ERROR_RETRY"]
          /\ step' = NoCalls
          /\ UNCHANGED <<now, stock_cache, lastStore>>
       \/ \E resps \in [1..Len(PopularOrder) -> Responses],
             ds \in [1..Len(PopularOrder) -> Delays] :
             LET r == PopularLoop(stock_cache, lastStore, t, now, 1, 0, 0,
                                  resps, ds)
             IN  /\ r.now <= MaxTime
                 /\ now' = r.now
                 /\ stock_cache' = r.cache
                 /\ lastStore' = r.last
                 /\ task' = [task EXCEPT
                       ![t].pc = "try_sending",
                       ![t].reply = IF r.count = 0 THEN "POPULAR_NONE"
                                    ELSE "POPULAR_LIST"]
                 /\ step' = [NoCalls EXCEPT
                       !.kind = "popular", !.by = t, !.quote = r.calls]
    /\ UNCHANGED <<AI_API_KEY, gemini_model, events, order>>

\* show_ihsg, lines 369-405: as above, with one call for the index, which
\* the cache takes no part in
IhsgFetch(t) ==
    /\ task[t].pc = "ihsg_loading"
    /\ \/ /\ task' = [task EXCEPT ![t].pc = "err_edit",
                                  ![t].reply = "ERROR_RETRY"]
          /\ now' = now
          /\ step' = NoCalls
       \/ \E resp \in Responses, d \in Delays :
             /\ now + d <= MaxTime
             /\ now' = now + d
             /\ step' = [NoCalls EXCEPT
                   !.kind = "ihsg", !.by = t, !.quote = 1]
             /\ task' = [task EXCEPT
                   ![t].pc = "try_sending",
                   ![t].reply = IF resp.kind # "frame" THEN "IHSG_ERROR"
                                ELSE IF resp.rows = <<>> THEN "IHSG_NONE"
                                ELSE "IHSG_QUOTE"]
    /\ UNCHANGED <<stock_cache, AI_API_KEY, gemini_model, events, order, lastStore>>

\* button_handler, lines 299-312: the menu function's last edit returned,
\* or raised, which line 310 catches and answers with the error text
TrySend(t) ==
    /\ task[t].pc = "try_sending"
    /\ \/ /\ task' = [task EXCEPT ![t] = Returned]
          /\ order' = Without(order, t)
       \/ /\ task' = [task EXCEPT ![t].pc = "err_edit",
                                  ![t].reply = "ERROR_RETRY"]
          /\ order' = order
    /\ step' = NoCalls
    /\ UNCHANGED <<now, stock_cache, AI_API_KEY, gemini_model, events, lastStore>>

\* line 312: the error text was edited in, or that edit raised too
ErrEdit(t) ==
    /\ task[t].pc = "err_edit"
    /\ \/ task' = [task EXCEPT ![t] = Returned]
       \/ task' = [task EXCEPT ![t] = Escaped]
    /\ order' = Without(order, t)
    /\ step' = NoCalls
    /\ UNCHANGED <<now, stock_cache, AI_API_KEY, gemini_model, events, lastStore>>

\* what the handler run in slot t can do
Handle(t) ==
    \/ Start(t)
    \/ StockCommand(t)
    \/ HandleText(t)
    \/ AskCommand(t)
    \/ ButtonHandler(t)
    \/ SearchStockFetch(t)
    \/ AiAnswer(t)
    \/ ButtonDispatch(t)
    \/ PopularFetch(t)
    \/ IhsgFetch(t)
    \/ TrySend(t)
    \/ ErrEdit(t)
    \/ FinishSend(t)

Next == Tick \/ Handle(1)

Spec == Init /\ [][Next]_vars

\* the quote lookups of search_stock and the free-text router, with
\* updates handled concurrently
Lookup(t) ==
    \/ StockCommand(t)
    \/ HandleText(t)
    \/ SearchStockFetch(t)
    \/ AiAnswer(t)
    \/ FinishSend(t)

NextInterleaved == Tick \/ \E t \in Tasks : Lookup(t)

InitNoKey == Init /\ ~AI_API_KEY

SpecInterleaved == InitNoKey /\ [][NextInterleaved]_vars

\* one /stock request, for every requested text and every price series
NextLookup ==
    \/ events = 0 /\ StockCommandFrom(1, WideArgs)
    \/ SearchStockFetchWith(1, WideResponses, {0})
    \/ FinishSend(1)

SpecLookup == InitNoKey /\ [][NextLookup]_vars

-----------------------------------------------------------------------------
(* Properties *)

\* slot t has just run get_stock_data for search_stock
Looked(t) == step.kind = "lookup" /\ step.by = t

\* the provider was called and gave no usable series
FetchFailure(st) ==
    /\ st.kind = "lookup"
    /\ st.quote = 1
    /\ (st.answer \in {"raise", "malformed"} \/ st.rows = <<>>)

\* C1: a get_stock_data call that finds the entry of an earlier successful
\* fetch younger than the TTL calls the quote provider not at all, returns
\* the record that fetch stored, and leaves its timestamp as stored.
C1_FreshEntryIsServed ==
    \A t \in Tasks :
        (Looked(t) /\ step.age >= 0 /\ step.age < cache_expiry) =>
            /\ step.quote = 0
            /\ ~task[t].fetched
            /\ task[t].ret = lastStore[task[t].code].data
            /\ stock_cache[task[t].code].ts = lastStore[task[t].code].ts
            /\ stock_cache[task[t].code].ts = step.was
            /\ now - step.age = step.was

C1_Witness ==
    \E t \in Tasks :
        /\ Looked(t)
        /\ step.age > 0 /\ step.age < cache_expiry
        /\ step.quote = 0
        /\ task[t].reply = "QUOTE"
        /\ task[t].ret = stock_cache[task[t].code].data

\* C2 as stated: a get_stock_data call that finds an entry of age TTL or
\* more calls the provider and the stored timestamp advances.
C2_StaleEntryAlwaysAdvances ==
    \A t \in Tasks :
        (Looked(t) /\ step.age >= cache_expiry) =>
            /\ step.quote = 1
            /\ stock_cache[task[t].code].ts > step.was

\* C2 as amended: such a call calls the provider once; the stored timestamp
\* advances (to the time the fetch completed) when the fetch succeeds and
\* stays when it fails.
C2_StaleEntryIsRefetched ==
    \A t \in Tasks :
        (Looked(t) /\ step.age >= cache_expiry) =>
            /\ step.quote = 1
            /\ task[t].fetched
            /\ task[t].ret # None =>
                  /\ stock_cache[task[t].code].ts > step.was
                  /\ stock_cache[task[t].code].ts = now
            /\ task[t].ret = None =>
                  stock_cache[task[t].code].ts = step.was

C2_Witness ==
    \E t \in Tasks :
        /\ Looked(t)
        /\ step.age = cache_expiry
        /\ step.quote = 1
        /\ task[t].ret # None
        /\ stock_cache[task[t].code].ts > step.was

\* C3: a step in which the fetch fails (the provider raises, the series is
\* empty or the derivation raises) leaves the cache map as it was and
\* returns None, which search_stock answers with "not found".
C3_FailedFetchKeepsCache ==
    [][FetchFailure(step') =>
          /\ stock_cache' = stock_cache
          /\ task'[step'.by].ret = None
          /\ task'[step'.by].reply = "NOT_FOUND"]_vars

C3_Witness ==
    \E t \in Tasks :
        /\ Looked(t)
        /\ FetchFailure(step)
        /\ step.age >= cache_expiry
        /\ task[t].code \in DOMAIN stock_cache
        /\ stock_cache[task[t].code].ts = step.was
        /\ task[t].ret = None

\* C4: every cache entry is the (record, timestamp) pair of the fetch for
\* its code that completed last, whole, whatever the order in which the
\* requests were dispatched.
C4_LastCompletionWins ==
    /\ DOMAIN stock_cache = DOMAIN lastStore
    /\ \A c \in DOMAIN stock_cache :
          /\ stock_cache[c] = lastStore[c]
          /\ stock_cache[c].data.code = c

C4_Witness ==
    \E t, u \in Tasks :
        /\ order = <<u, t>>
        /\ task[t].pc = "sending" /\ task[u].pc = "sending"
        /\ task[t].code = task[u].code
        /\ task[t].fetched /\ task[u].fetched
        /\ task[t].ret # None /\ task[u].ret # None
        /\ task[t].ret # task[u].ret
        /\ Looked(u)
        /\ stock_cache[task[u].code] = [data |-> task[u].ret, ts |-> now]

\* slot t has just run ai_chat
Chatted(t) == step.kind = "ai" /\ step.by = t

\* C5: ai_chat without a credential, or with one but no model handle,
\* returns the matching "unavailable" text and calls the LLM provider not
\* at all.
C5_NoCredentialNoCall ==
    \A t \in Tasks :
        (Chatted(t) /\ (~AI_API_KEY \/ ~gemini_model)) =>
            /\ step.llm = 0
            /\ task[t].pc = "sending"
            /\ task[t].reply = IF ~AI_API_KEY THEN "AI_NO_KEY" ELSE "AI_NO_MODEL"

C5_Witness ==
    \E t \in Tasks :
        /\ Chatted(t)
        /\ ~AI_API_KEY
        /\ task[t].handler = "ask"
        /\ task[t].reply = "AI_NO_KEY"
        /\ step.llm = 0

\* C6: ai_chat calls the LLM provider at most once, always returns one of
\* its texts to the handler, and answers a provider error with one of the
\* static apologies.
C6_SingleAttempt ==
    \A t \in Tasks :
        Chatted(t) =>
            /\ step.llm <= 1
            /\ task[t].pc = "sending"
            /\ task[t].reply \in {"AI_NO_KEY", "AI_NO_MODEL", "AI_ANSWER",
                                  "AI_NO_ANSWER", "AI_QUOTA", "AI_SAFETY",
                                  "AI_TRY_LATER"}
            /\ step.answer \in {"quota", "safety", "error"} =>
                  task[t].reply \in {"AI_QUOTA", "AI_SAFETY", "AI_TRY_LATER"}

C6_Witness ==
    \E t \in Tasks :
        /\ Chatted(t)
        /\ step.llm = 1
        /\ step.answer = "error"
        /\ task[t].pc = "sending"
        /\ task[t].reply = "AI_TRY_LATER"

\* C7: no exception leaves button_handler, whichever of its steps raises.
C7_NothingEscapesButtonHandler ==
    [][\A t \in Tasks :
          task[t].handler = "button" => task'[t].pc # "escaped"]_vars

\* the symbol without its trailing exchange suffix
BareSymbol(code) ==
    IF EndsWith(code, JK) THEN SubSeq(code, 1, Len(code) - Len(JK)) ELSE code

\* C8: the record built for a symbol that is not in the name table is named
\* by the bare symbol.
C8_FallbackNameIsBareSymbol ==
    \A t \in Tasks :
        (task[t].ret # None /\ task[t].code \notin DOMAIN POPULAR_STOCKS) =>
            task[t].ret.name = BareSymbol(task[t].code)

\* C9: the code search_stock looks up ends with the suffix, normalizing it
\* again changes nothing, a text that has the suffix is its own code, and a
\* text without it has the code of its suffixed form.
C9_NormalizeIdempotent ==
    \A t \in Tasks :
        task[t].code # <<>> =>
            /\ EndsWith(task[t].code, JK)
            /\ Normalize(task[t].code) = task[t].code
            /\ Normalize(task[t].stock_code) = task[t].code
            /\ EndsWith(task[t].stock_code, JK) => task[t].code = task[t].stock_code
            /\ ~EndsWith(task[t].stock_code, JK) =>
                  Normalize(task[t].stock_code \o JK) = task[t].code

C9_Witness ==
    \E t \in Tasks :
        /\ task[t].pc = "loading"
        /\ Len(task[t].stock_code) > Len(JK)
        /\ EndsWith(task[t].stock_code, JK)
        /\ task[t].code = task[t].stock_code

\* C10: a fetched series whose prior close is 0 gives a record with
\* percent change 0; the fetch succeeds and the record is cached.
C10_ZeroPriorGivesZeroPercent ==
    \A t \in Tasks :
        (/\ Looked(t)
         /\ step.quote = 1
         /\ step.answer = "frame"
         /\ step.rows # <<>>
         /\ PrevClose(step.rows) = 0) =>
            /\ task[t].ret # None
            /\ task[t].ret.change_pct = Whole(0)
            /\ task[t].reply = "QUOTE"
            /\ task[t].code \in DOMAIN stock_cache
            /\ stock_cache[task[t].code].data = task[t].ret

C10_Witness ==
    \E t \in Tasks :
        /\ Looked(t)
        /\ Len(step.rows) = 2
        /\ step.rows[1].Close = 0
        /\ step.rows[2].Close > 0
        /\ task[t].ret # None
        /\ task[t].ret.change > 0
        /\ task[t].ret.change_pct = Whole(0)
        /\ stock_cache[task[t].code].data = task[t].ret

\* C11: a fetched series of exactly one sample gives a record whose prior
\* close is its last close, so its change and its percent change are 0,
\* and the quote reply shows the non-negative (green) indicator.
C11_SingleSampleIsFlat ==
    \A t \in Tasks :
        (/\ Looked(t)
         /\ step.quote = 1
         /\ step.answer = "frame"
         /\ Len(step.rows) = 1) =>
            /\ PrevClose(step.rows) = step.rows[1].Close
            /\ task[t].ret # None
            /\ task[t].ret.current_price = step.rows[1].Close
            /\ task[t].ret.change = 0
            /\ task[t].ret.change_pct = Whole(0)
            /\ task[t].reply = "QUOTE"
            /\ task[t].emoji = "green"

C11_Witness ==
    \E t \in Tasks :
        /\ Looked(t)
        /\ step.quote = 1
        /\ Len(step.rows) = 1
        /\ step.rows[1].Close > 0
        /\ task[t].ret # None
        /\ task[t].ret.current_price = step.rows[1].Close
        /\ task[t].ret.change = 0
        /\ task[t].emoji = "green"

\* every key of the cache ends with the exchange suffix and holds the
\* record of its own code
CacheWellKeyed(cache) ==
    \A k \in DOMAIN cache : EndsWith(k, JK) /\ cache[k].data.code = k

\* C12: whatever /stock commands, ticker texts and popular-stocks clicks
\* were handled, every cache key ends with .JK, the record under key K has
\* code K, and no step removes a key that was present.
C12_CacheKeysSuffixedAndKept ==
    /\ []CacheWellKeyed(stock_cache)
    /\ [][DOMAIN stock_cache \subseteq DOMAIN stock_cache']_vars

C12_Witness ==
    /\ DOMAIN stock_cache = {BBCA, BBRI}
    /\ FetchFailure(step)
    /\ step.was >= 0
    /\ task[step.by].handler \in {"stock", "text"}
    /\ task[step.by].code \in DOMAIN stock_cache
    /\ CacheWellKeyed(stock_cache)

=============================================================================
